---- MODULE Spec2Model ----
(***************************************************************************)
(* Model of after_words.py: the paginator (split_into_pages), the unit     *)
(* processor (translate_page) and the orchestrator loop of main.           *)
(*                                                                         *)
(* Strings are sequences of one-character strings, so that strip, split,   *)
(* join, the regular expressions and startswith are computed character by  *)
(* character as Python computes them.                                      *)
(***************************************************************************)
EXTENDS Integers, Sequences, FiniteSets, TLC

\* ------------------------------------------------------------------------
\* Bounds of the model
\* ------------------------------------------------------------------------

\* a source text is the concatenation of at most MaxTokens tokens
MaxTokens == 5

\* a run processes at most MaxPages pages
MaxPages == 2

\* a generation stream delivers at most MaxParts parts before it ends or fails
MaxParts == 2

\* a raw final text is the concatenation of at most MaxCleanTokens tokens
MaxCleanTokens == 3

\* ------------------------------------------------------------------------
\* Program constants (after_words.py, CONFIGURATION VARIABLES)
\* ------------------------------------------------------------------------

DEFAULT_TARGET_WORDS == 500
DEFAULT_MAX_WORDS == 800
SAVE_THINKING_LOG == TRUE
STREAM == TRUE
TEST_MODE == FALSE
TEST_PAGES == 5
RETRY_ATTEMPTS == 3
\* page[:200] and translated[:200] of the trace record
PREVIEW_CHARS == 200

\* ------------------------------------------------------------------------
\* Python string primitives
\* ------------------------------------------------------------------------

\* str.isspace / \s of the re module, on the characters a model text can hold
IsSpace(c) == c \in {" ", "\t", "\n", "\r", "\f"}

\* \d of the re module
IsDigit(c) == c \in {"0", "1", "2", "3", "4", "5", "6", "7", "8", "9"}

RECURSIVE Flatten(_)
\* ''.join(seq): the concatenation of a sequence of strings
Flatten(ss) == IF ss = <<>> THEN <<>> ELSE Head(ss) \o Flatten(Tail(ss))

RECURSIVE LStrip(_)
LStrip(s) == IF s /= <<>> /\ IsSpace(Head(s)) THEN LStrip(Tail(s)) ELSE s

RECURSIVE RStrip(_)
RStrip(s) ==
    IF s /= <<>> /\ IsSpace(s[Len(s)]) THEN RStrip(SubSeq(s, 1, Len(s) - 1)) ELSE s

\* str.strip()
Strip(s) == RStrip(LStrip(s))

\* len(s.split()): the number of maximal runs of non-whitespace characters
WordCount(s) ==
    Cardinality({i \in 1..Len(s) :
                    /\ ~IsSpace(s[i])
                    /\ (i = 1 \/ IsSpace(s[i - 1]))})

\* s.startswith(p)
StartsWith(s, p) == Len(s) >= Len(p) /\ SubSeq(s, 1, Len(p)) = p

RECURSIVE Join(_, _)
\* sep.join(ss)
Join(ss, sep) ==
    IF ss = <<>> THEN <<>>
    ELSE IF Len(ss) = 1 THEN ss[1]
    ELSE ss[1] \o sep \o Join(Tail(ss), sep)

\* the page separator '\n\n'
PageSep == <<"\n", "\n">>

\* ------------------------------------------------------------------------
\* re.split(r'\n\s*\n+', text)
\* ------------------------------------------------------------------------

RECURSIVE SpaceRunEnd(_, _)
\* the last index of the maximal run of whitespace that starts at index i
SpaceRunEnd(s, i) ==
    IF i < Len(s) /\ IsSpace(s[i + 1]) THEN SpaceRunEnd(s, i + 1) ELSE i

\* the end of a match of \n\s*: a line feed and the whitespace after it,
\* without a second line feed
BlankMatchEndSingleFeed(s, i) == IF s[i] /= "\n" THEN 0 ELSE SpaceRunEnd(s, i)

\* The end of the match of \n\s*\n+ at index i, or 0 when it does not match
\* there: s[i] is a line feed, the greedy \s* backtracks to the last line
\* feed of the whitespace run, which \n+ then takes.
BlankMatchEnd(s, i) ==
    IF s[i] /= "\n" THEN 0
    ELSE LET e == SpaceRunEnd(s, i)
             nl == {j \in (i + 1)..e : s[j] = "\n"}
         IN IF nl = {} THEN 0 ELSE CHOOSE j \in nl : \A k \in nl : k <= j

RECURSIVE ReSplitFrom(_, _)
\* the pieces of s from index i on: the scan finds the leftmost match at or
\* after i, the piece ends before it and the scan goes on after its end
ReSplitFrom(s, i) ==
    LET starts == {j \in i..Len(s) : BlankMatchEnd(s, j) > 0}
    IN IF starts = {} THEN << SubSeq(s, i, Len(s)) >>
       ELSE LET j == CHOOSE m \in starts : \A k \in starts : m <= k
            IN << SubSeq(s, i, j - 1) >> \o ReSplitFrom(s, BlankMatchEnd(s, j) + 1)

ReSplit(s) == ReSplitFrom(s, 1)

\* ------------------------------------------------------------------------
\* re.match(r'^(Chapter|CHAPTER|Part|PART)\s+[\dIVXLCDM]+', para)
\* ------------------------------------------------------------------------

HeadingTokens ==
    { <<"C", "h", "a", "p", "t", "e", "r">>,
      <<"C", "H", "A", "P", "T", "E", "R">>,
      <<"P", "a", "r", "t">>,
      <<"P", "A", "R", "T">> }

IsNumeralChar(c) == IsDigit(c) \/ c \in {"I", "V", "X", "L", "C", "D", "M"}

\* the heading token, one or more whitespace characters, then a numeral
\* character; what follows the first numeral character is not constrained
MatchesBreak(para) ==
    \E h \in HeadingTokens :
        /\ StartsWith(para, h)
        /\ Len(para) > Len(h)
        /\ IsSpace(para[Len(h) + 1])
        /\ LET e == SpaceRunEnd(para, Len(h) + 1)
           IN e < Len(para) /\ IsNumeralChar(para[e + 1])

\* ------------------------------------------------------------------------
\* Cleanup of the final text, translate_page lines 287-303
\* ------------------------------------------------------------------------

\* str.lower() on the letters a model text can hold
Lower(c) ==
    CASE c = "A" -> "a" [] c = "B" -> "b" [] c = "C" -> "c" [] c = "D" -> "d"
      [] c = "E" -> "e" [] c = "F" -> "f" [] c = "G" -> "g" [] c = "H" -> "h"
      [] c = "I" -> "i" [] c = "J" -> "j" [] c = "K" -> "k" [] c = "L" -> "l"
      [] c = "M" -> "m" [] c = "N" -> "n" [] c = "O" -> "o" [] c = "P" -> "p"
      [] c = "Q" -> "q" [] c = "R" -> "r" [] c = "S" -> "s" [] c = "T" -> "t"
      [] c = "U" -> "u" [] c = "V" -> "v" [] c = "W" -> "w" [] c = "X" -> "x"
      [] c = "Y" -> "y" [] c = "Z" -> "z" [] OTHER -> c

RECURSIVE LowerStr(_)
\* str.lower()
LowerStr(s) == IF s = <<>> THEN <<>> ELSE <<Lower(Head(s))>> \o LowerStr(Tail(s))

\* "Here is the translation:"
PrefixHereIs ==
    << "H", "e", "r", "e", " ", "i", "s", " ", "t", "h", "e", " ", "t",
       "r", "a", "n", "s", "l", "a", "t", "i", "o", "n", ":" >>

\* "Translation:"
PrefixTranslation ==
    << "T", "r", "a", "n", "s", "l", "a", "t", "i", "o", "n", ":" >>

\* "Here's the text translated"
PrefixHeres ==
    << "H", "e", "r", "e", "'", "s", " ", "t", "h", "e", " ", "t", "e",
       "x", "t", " ", "t", "r", "a", "n", "s", "l", "a", "t", "e", "d" >>

\* "Translated text:"
PrefixTranslated ==
    << "T", "r", "a", "n", "s", "l", "a", "t", "e", "d", " ", "t", "e",
       "x", "t", ":" >>

\* prefixes_to_remove, lines 295-300, in list order
prefixes_to_remove ==
    << PrefixHereIs, PrefixTranslation, PrefixHeres, PrefixTranslated >>

\* content.lower().startswith(prefix.lower()), line 302
HasPrefix(c, prefix) == StartsWith(LowerStr(c), LowerStr(prefix))

\* content[len(prefix):].strip(), line 303
CutPrefix(c, prefix) == Strip(SubSeq(c, Len(prefix) + 1, Len(c)))

\* one iteration of the loop of lines 301-303
RemovePrefix(c, prefix) == IF HasPrefix(c, prefix) THEN CutPrefix(c, prefix) ELSE c

RECURSIVE RemovePrefixesFrom(_, _)
\* the iterations k, k+1, ... of the loop of lines 301-303
RemovePrefixesFrom(c, k) ==
    IF k > Len(prefixes_to_remove) THEN c
    ELSE RemovePrefixesFrom(RemovePrefix(c, prefixes_to_remove[k]), k + 1)

\* lines 288-303: strip, then every listed prefix is tried once, in order
CleanContent(c) == RemovePrefixesFrom(Strip(c), 1)

\* s[:n]
Prefix(s, n) == SubSeq(s, 1, IF Len(s) < n THEN Len(s) ELSE n)

\* ------------------------------------------------------------------------
\* Input texts of the paginator
\* ------------------------------------------------------------------------

\* the pieces a model text is built from: a word, a blank, a line feed, a
\* blank line and a chapter heading
TextTokens ==
    { <<"x">>, <<" ">>, <<"\n">>, <<"\n", "\n">>,
      <<"P", "a", "r", "t", " ", "3">> }

RECURSIVE TokenSeqs(_)
TokenSeqs(n) ==
    IF n = 0 THEN {<<>>}
    ELSE LET shorter == TokenSeqs(n - 1)
         IN shorter \cup {Append(ts, t) : ts \in {u \in shorter : Len(u) = n - 1},
                                         t \in TextTokens}

Texts == {Flatten(ts) : ts \in TokenSeqs(MaxTokens)}

\* a paragraph of n words
Words(n) == [k \in 1..(2 * n - 1) |-> IF k % 2 = 1 THEN "x" ELSE " "]

\* three paragraphs of 300, 250 and 100 words
ThreeParagraphs == Join(<< Words(300), Words(250), Words(100) >>, PageSep)

\* a word, then a paragraph that starts with a heading token: in lower
\* case, in mixed case with a Roman numeral, and followed by an ordinary word
LowerCaseHeading == <<"x", "\n", "\n", "p", "a", "r", "t", " ", "3">>
MixedCaseHeading == <<"x", "\n", "\n", "p", "A", "r", "T", " ", "I", "V">>
HeadingThenWord == <<"x", "\n", "\n", "P", "a", "r", "t", " ", "D", "e", "n">>

\* texts given to split_into_pages besides the token texts
ExampleTexts ==
    { ThreeParagraphs, LowerCaseHeading, MixedCaseHeading, HeadingThenWord }

\* (TARGET_WORDS_PER_PAGE, MAX_WORDS_PER_PAGE): the shipped setting and small
\* settings that the bounded texts can reach
PageSettings == { <<1, 2>>, <<2, 3>>, <<3, 2>>,
                  <<DEFAULT_TARGET_WORDS, DEFAULT_MAX_WORDS>> }

\* ------------------------------------------------------------------------
\* State
\* ------------------------------------------------------------------------

VARIABLES
    TARGET_WORDS_PER_PAGE,     \* module global, line 29
    MAX_WORDS_PER_PAGE,        \* module global, line 31
    PRESERVE_CHAPTER_BREAKS,   \* module global, line 32
    text,                      \* argument of split_into_pages
    paragraphs,                \* line 134
    para_idx,                  \* position of the for loop of line 140
    pages,                     \* line 136
    current_page,              \* line 137
    current_word_count,        \* line 138
    split_pc                   \* "start", "loop", "done"

VARIABLES
    total_pages,       \* main, line 372
    page_num,          \* main: i of the for loop; translate_page: page_num
    pc,                \* position of main / translate_page
    attempts,          \* translate_page, line 219
    thinking,          \* translate_page: reasoning buffer; main: thinking
    content,           \* translate_page: final buffer; main: translated
    stream,            \* the parts the current chat() call has delivered
    work_files,        \* translations/{thinking,content}_page_N.txt
    open_targets,      \* file objects of the working files not yet closed
    outfile,           \* the output artifact: Python buffer and file content
    thinking_log,      \* main, line 379
    thinking_log_file, \* content of thinking_log.json
    page_state,        \* per page: PENDING, IN_PROGRESS, COMPLETED, FAILED_SKIPPED
    page_result,       \* per page: what translate_page returned for it
    calls,             \* per page: number of chat() invocations
    discarded          \* parts delivered by the failed attempts of this page

runVars == << total_pages, page_num, pc, attempts, thinking, content, stream,
              work_files, open_targets, outfile, thinking_log,
              thinking_log_file, page_state, page_result, calls, discarded >>

VARIABLES
    raw_content,       \* the final buffer when the stream has ended
    cleanup_content,   \* content during lines 288-303
    prefix_idx,        \* position of the for loop of line 301
    clean_pc           \* "strip", "prefixes", "done"

cleanVars == << raw_content, cleanup_content, prefix_idx, clean_pc >>

pagVars == << TARGET_WORDS_PER_PAGE, MAX_WORDS_PER_PAGE, PRESERVE_CHAPTER_BREAKS,
              text, paragraphs, para_idx, pages, current_page,
              current_word_count, split_pc >>

vars == << pagVars, runVars, cleanVars >>

\* ------------------------------------------------------------------------
\* Values of the orchestrator state
\* ------------------------------------------------------------------------

\* a buffered text file: what write() has put into the buffer of the file
\* object and what flush() or close() has put into the file
EmptyFile == [buffer |-> <<>>, disk |-> <<>>]

FileWrite(f, s) == [f EXCEPT !.buffer = @ \o s]

\* a flush that leaves the data in the buffer of the file object
FileFlushNothing(f) == f

FileFlush(f) == [buffer |-> <<>>, disk |-> f.disk \o f.buffer]

\* the two working files of a page: whether they exist, and their content
NoFile == [exists |-> FALSE, thinking |-> <<>>, content |-> <<>>]

WorkFiles(reasoning, final) ==
    [exists |-> TRUE, thinking |-> reasoning, content |-> final]

\* main before the loop: lines 376-379 have run, nothing is processed yet;
\* the output directory holds no file of an earlier run
RunNotStarted ==
    /\ total_pages = 0
    /\ page_num = 0
    /\ pc = "idle"
    /\ attempts = 0
    /\ thinking = <<>>
    /\ content = <<>>
    /\ stream = <<>>
    /\ work_files = <<>>
    /\ open_targets = {}
    /\ outfile = EmptyFile
    /\ thinking_log = <<>>
    /\ thinking_log_file = <<>>
    /\ page_state = <<>>
    /\ page_result = <<>>
    /\ calls = <<>>
    /\ discarded = 0

\* the cleanup of lines 287-303 is not running
CleanNotStarted ==
    /\ raw_content = <<>>
    /\ cleanup_content = <<>>
    /\ prefix_idx = 0
    /\ clean_pc = "idle"

\* ------------------------------------------------------------------------
\* split_into_pages, one action per loop iteration
\* ------------------------------------------------------------------------

PagInit ==
    /\ \E st \in PageSettings :
          /\ TARGET_WORDS_PER_PAGE = st[1]
          /\ MAX_WORDS_PER_PAGE = st[2]
    /\ PRESERVE_CHAPTER_BREAKS \in BOOLEAN
    /\ text \in Texts \cup ExampleTexts
    /\ paragraphs = <<>>
    /\ para_idx = 0
    /\ pages = <<>>
    /\ current_page = <<>>
    /\ current_word_count = 0
    /\ split_pc = "start"
    /\ RunNotStarted
    /\ CleanNotStarted

settingsUnchanged ==
    UNCHANGED << TARGET_WORDS_PER_PAGE, MAX_WORDS_PER_PAGE,
                 PRESERVE_CHAPTER_BREAKS, text, runVars, cleanVars >>

\* lines 134-138
SplitParagraphs ==
    /\ split_pc = "start"
    /\ paragraphs' = ReSplit(text)
    /\ para_idx' = 1
    /\ pages' = <<>>
    /\ current_page' = <<>>
    /\ current_word_count' = 0
    /\ split_pc' = "loop"
    /\ settingsUnchanged

InLoop == split_pc = "loop" /\ para_idx <= Len(paragraphs)

\* para = para.strip(), line 141
CurrentPara == Strip(paragraphs[para_idx])

\* a break test that knows the upper-case heading tokens only
IsChapterBreakUpperOnly(para) ==
    /\ PRESERVE_CHAPTER_BREAKS
    /\ MatchesBreak(para)
    /\ \E h \in { <<"C", "H", "A", "P", "T", "E", "R">>, <<"P", "A", "R", "T">> } :
           StartsWith(para, h)

IsChapterBreak(para) == PRESERVE_CHAPTER_BREAKS /\ MatchesBreak(para)

\* a flush that joins the paragraphs of a page by a single line feed
FlushPageSingleBreak(pgs, cur) == Append(pgs, Join(cur, <<"\n">>))

\* pages.append('\n\n'.join(current_page))
FlushPage(pgs, cur) == Append(pgs, Join(cur, PageSep))

\* lines 142-143
SkipEmptyParagraph ==
    /\ InLoop
    /\ CurrentPara = <<>>
    /\ para_idx' = para_idx + 1
    /\ UNCHANGED << paragraphs, pages, current_page, current_word_count, split_pc >>
    /\ settingsUnchanged

\* lines 148-155
ChapterBreak ==
    /\ InLoop
    /\ CurrentPara /= <<>>
    /\ IsChapterBreak(CurrentPara)
    /\ pages' = IF current_page /= <<>> THEN FlushPage(pages, current_page) ELSE pages
    /\ current_page' = <<CurrentPara>>
    /\ current_word_count' = WordCount(CurrentPara)
    /\ para_idx' = para_idx + 1
    /\ UNCHANGED << paragraphs, split_pc >>
    /\ settingsUnchanged

\* a maximum test that compares the running count alone
ExceedsMaxCountOnly(count, words, cur) == count > MAX_WORDS_PER_PAGE /\ cur /= <<>>

\* line 158
ExceedsMax(count, words, cur) == count + words > MAX_WORDS_PER_PAGE /\ cur /= <<>>

\* a target test that lets a page grow past the target before it is closed
ReachedTargetStrict(count, cur) == count > TARGET_WORDS_PER_PAGE /\ cur /= <<>>

\* line 162
ReachedTarget(count, cur) == count >= TARGET_WORDS_PER_PAGE /\ cur /= <<>>

\* lines 158-161
FlushOnMax ==
    /\ InLoop
    /\ CurrentPara /= <<>>
    /\ ~IsChapterBreak(CurrentPara)
    /\ ExceedsMax(current_word_count, WordCount(CurrentPara), current_page)
    /\ pages' = FlushPage(pages, current_page)
    /\ current_page' = <<CurrentPara>>
    /\ current_word_count' = WordCount(CurrentPara)
    /\ para_idx' = para_idx + 1
    /\ UNCHANGED << paragraphs, split_pc >>
    /\ settingsUnchanged

\* lines 162-166
FlushOnTarget ==
    /\ InLoop
    /\ CurrentPara /= <<>>
    /\ ~IsChapterBreak(CurrentPara)
    /\ ~ExceedsMax(current_word_count, WordCount(CurrentPara), current_page)
    /\ ReachedTarget(current_word_count, current_page)
    /\ pages' = FlushPage(pages, current_page)
    /\ current_page' = <<CurrentPara>>
    /\ current_word_count' = WordCount(CurrentPara)
    /\ para_idx' = para_idx + 1
    /\ UNCHANGED << paragraphs, split_pc >>
    /\ settingsUnchanged

\* lines 167-169
AppendParagraph ==
    /\ InLoop
    /\ CurrentPara /= <<>>
    /\ ~IsChapterBreak(CurrentPara)
    /\ ~ExceedsMax(current_word_count, WordCount(CurrentPara), current_page)
    /\ ~ReachedTarget(current_word_count, current_page)
    /\ current_page' = Append(current_page, CurrentPara)
    /\ current_word_count' = current_word_count + WordCount(CurrentPara)
    /\ para_idx' = para_idx + 1
    /\ UNCHANGED << paragraphs, pages, split_pc >>
    /\ settingsUnchanged

\* lines 172-175
FinishPages ==
    /\ split_pc = "loop"
    /\ para_idx > Len(paragraphs)
    /\ pages' = IF current_page /= <<>> THEN FlushPage(pages, current_page) ELSE pages
    /\ split_pc' = "done"
    /\ UNCHANGED << paragraphs, para_idx, current_page, current_word_count >>
    /\ settingsUnchanged

PagNext ==
    \/ SplitParagraphs
    \/ SkipEmptyParagraph
    \/ ChapterBreak
    \/ FlushOnMax
    \/ FlushOnTarget
    \/ AppendParagraph
    \/ FinishPages

PagSpec == PagInit /\ [][PagNext]_vars

\* ------------------------------------------------------------------------
\* main and translate_page
\* ------------------------------------------------------------------------

\* the parts the generation capability delivers: a reasoning fragment and a
\* final-text fragment (a word with its leading blank)
ThinkingPart == [thinking |-> <<"t">>, content |-> <<>>]
ContentPart == [thinking |-> <<>>, content |-> <<" ", "a">>]
Parts == {ThinkingPart, ContentPart}

\* the page text of the model runs: a chapter heading, which split_into_pages
\* puts on a page of its own under the shipped settings
PageText == <<"P", "a", "r", "t", " ", "3">>

PageList(n) == [k \in 1..n |-> PageText]

\* what translate_page returned for a page, if it has returned
NoResult == [returned |-> FALSE, final |-> <<>>, trace |-> <<>>]

PageResult(translated, reasoning) ==
    [returned |-> TRUE, final |-> translated, trace |-> reasoning]

Min(a, b) == IF a < b THEN a ELSE b

\* main up to line 384: the text is split, the output file is opened with
\* mode 'w', no page has been processed
RunInit ==
    \E n \in 0..MaxPages :
        /\ TARGET_WORDS_PER_PAGE = DEFAULT_TARGET_WORDS
        /\ MAX_WORDS_PER_PAGE = DEFAULT_MAX_WORDS
        /\ PRESERVE_CHAPTER_BREAKS = TRUE
        /\ text = Join(PageList(n), PageSep)
        /\ paragraphs = PageList(n)
        /\ para_idx = n + 1
        /\ pages = PageList(n)
        /\ current_page = IF n = 0 THEN <<>> ELSE <<PageText>>
        /\ current_word_count = IF n = 0 THEN 0 ELSE WordCount(PageText)
        /\ split_pc = "done"
        /\ total_pages = IF TEST_MODE THEN Min(TEST_PAGES, n) ELSE n
        /\ page_num = 1
        /\ pc = "next_page"
        /\ attempts = 0
        /\ thinking = <<>>
        /\ content = <<>>
        /\ stream = <<>>
        /\ work_files = [k \in 1..n |-> NoFile]
        /\ open_targets = {}
        /\ outfile = EmptyFile
        /\ thinking_log = <<>>
        /\ thinking_log_file = <<>>
        /\ page_state = [k \in 1..n |-> "PENDING"]
        /\ page_result = [k \in 1..n |-> NoResult]
        /\ calls = [k \in 1..n |-> 0]
        /\ discarded = 0
        /\ CleanNotStarted

\* a while condition that allows one attempt more than the budget
BudgetLeftInclusive(a) == a <= RETRY_ATTEMPTS

\* attempts < RETRY_ATTEMPTS, lines 220 and 316
BudgetLeft(a) == a < RETRY_ATTEMPTS

\* a buffer that is carried over from the attempt before
KeepBuffer(old) == old

\* thinking = "" and content = "", lines 225-226
FreshBuffer(old) == <<>>

\* a loop that takes the same page again
SamePage(n) == n

\* the next value of i in the for loop of line 385
AfterPage(n) == n + 1

\* working files that are opened with mode 'a' and keep what they hold
OpenForAppending(old) == IF old.exists THEN old ELSE WorkFiles(<<>>, <<>>)

\* open(..., 'w') of lines 232-233: both working files are created or
\* truncated
OpenForWriting(old) == WorkFiles(<<>>, <<>>)

\* the two file objects opened by attempt a on page n, lines 232-233
Targets(n, a) ==
    { [page |-> n, attempt |-> a, channel |-> ch] : ch \in {"thinking", "content"} }

\* the record appended to thinking_log, lines 402-407
TraceRecord(n, page, reasoning, translated) ==
    [ page |-> n,
      original_preview |-> Prefix(page, PREVIEW_CHARS),
      thinking |-> reasoning,
      translation_preview |-> Prefix(translated, PREVIEW_CHARS) ]

\* lines 385-392 and 201-219: the loop takes page i, enters the try block
\* and calls translate_page, which sets attempts = 0
StartPage ==
    /\ pc = "next_page"
    /\ page_num <= total_pages
    /\ page_state' = [page_state EXCEPT ![page_num] = "IN_PROGRESS"]
    /\ attempts' = 0
    /\ discarded' = 0
    /\ pc' = "call"
    /\ UNCHANGED << total_pages, page_num, thinking, content, stream, work_files,
                    open_targets, outfile, thinking_log, thinking_log_file,
                    page_result, calls >>
    /\ UNCHANGED << pagVars, cleanVars >>

\* lines 220-244: one pass of the while loop up to the chat() call; both
\* buffers are reset, both working files are opened with mode 'w'
BeginAttempt ==
    /\ pc = "call"
    /\ BudgetLeft(attempts)
    /\ thinking' = FreshBuffer(thinking)
    /\ content' = FreshBuffer(content)
    /\ IF STREAM
       THEN /\ work_files' = [work_files EXCEPT ![page_num] = OpenForWriting(@)]
            /\ open_targets' = open_targets \cup Targets(page_num, attempts + 1)
       ELSE UNCHANGED << work_files, open_targets >>
    /\ calls' = [calls EXCEPT ![page_num] = @ + 1]
    /\ stream' = <<>>
    /\ pc' = "stream"
    /\ UNCHANGED << total_pages, page_num, attempts, outfile, thinking_log,
                    thinking_log_file, page_state, page_result, discarded >>
    /\ UNCHANGED << pagVars, cleanVars >>

\* a part that is added to the buffers and not recorded in the working files
ReceivePartUnrecorded ==
    /\ pc = "stream"
    /\ Len(stream) < MaxParts
    /\ \E part \in Parts :
          /\ thinking' = thinking \o part.thinking
          /\ content' = content \o part.content
          /\ stream' = Append(stream, part)
    /\ UNCHANGED << total_pages, page_num, pc, attempts, work_files, open_targets,
                    outfile, thinking_log, thinking_log_file, page_state,
                    page_result, calls, discarded >>
    /\ UNCHANGED << pagVars, cleanVars >>

\* lines 245-266: one part of the stream; each channel it carries is added
\* to the buffer of the channel and written and flushed to its working file
ReceivePart ==
    /\ pc = "stream"
    /\ Len(stream) < MaxParts
    /\ \E part \in Parts :
          /\ thinking' = thinking \o part.thinking
          /\ content' = content \o part.content
          /\ IF STREAM
             THEN work_files' = [work_files EXCEPT ![page_num] =
                                    WorkFiles(@.thinking \o part.thinking,
                                              @.content \o part.content)]
             ELSE UNCHANGED work_files
          /\ stream' = Append(stream, part)
    /\ UNCHANGED << total_pages, page_num, pc, attempts, open_targets, outfile,
                    thinking_log, thinking_log_file, page_state, page_result,
                    calls, discarded >>
    /\ UNCHANGED << pagVars, cleanVars >>

\* lines 268-310: the stream ends; both working files are closed, the final
\* text is cleaned, translate_page returns (content, thinking)
EndStream ==
    /\ pc = "stream"
    /\ open_targets' = open_targets \ Targets(page_num, attempts + 1)
    /\ content' = CleanContent(content)
    /\ page_result' = [page_result EXCEPT ![page_num] =
                          PageResult(CleanContent(content), thinking)]
    /\ pc' = "write"
    /\ UNCHANGED << total_pages, page_num, attempts, thinking, stream, work_files,
                    outfile, thinking_log, thinking_log_file, page_state, calls,
                    discarded >>
    /\ UNCHANGED << pagVars, cleanVars >>

\* lines 312-317: chat() raises, before the first part or after any part,
\* and attempts remain: the attempt is counted, translate_page sleeps and
\* loops; the working files are not closed
RetryAfterFailure ==
    /\ pc = "stream"
    /\ BudgetLeft(attempts + 1)
    /\ attempts' = attempts + 1
    /\ discarded' = discarded + Len(stream)
    /\ pc' = "call"
    /\ UNCHANGED << total_pages, page_num, thinking, content, stream, work_files,
                    open_targets, outfile, thinking_log, thinking_log_file,
                    page_state, page_result, calls >>
    /\ UNCHANGED << pagVars, cleanVars >>

\* a last failure that is not caught by main: the run ends at this page
GiveUpAbortsRun ==
    /\ pc = "stream"
    /\ ~BudgetLeft(attempts + 1)
    /\ attempts' = attempts + 1
    /\ discarded' = discarded + Len(stream)
    /\ page_state' = [page_state EXCEPT ![page_num] = "FAILED_SKIPPED"]
    /\ pc' = "complete"
    /\ UNCHANGED << total_pages, page_num, thinking, content, stream, work_files,
                    open_targets, outfile, thinking_log, thinking_log_file,
                    page_result, calls >>
    /\ UNCHANGED << pagVars, cleanVars >>

\* lines 312-319 and 419-422: chat() raises on the last attempt of the
\* budget; translate_page re-raises, the handler of main reports the page
\* and the loop continues with the next page
GiveUp ==
    /\ pc = "stream"
    /\ ~BudgetLeft(attempts + 1)
    /\ attempts' = attempts + 1
    /\ discarded' = discarded + Len(stream)
    /\ page_state' = [page_state EXCEPT ![page_num] = "FAILED_SKIPPED"]
    /\ page_num' = AfterPage(page_num)
    /\ pc' = "next_page"
    /\ UNCHANGED << total_pages, thinking, content, stream, work_files,
                    open_targets, outfile, thinking_log, thinking_log_file,
                    page_result, calls >>
    /\ UNCHANGED << pagVars, cleanVars >>

\* lines 394-398: the separator unless i = 1, the translated text, flush
WritePage ==
    /\ pc = "write"
    /\ LET separated == IF page_num > 1 THEN FileWrite(outfile, PageSep) ELSE outfile
       IN outfile' = FileFlush(FileWrite(separated, content))
    /\ pc' = "log"
    /\ UNCHANGED << total_pages, page_num, attempts, thinking, content, stream,
                    work_files, open_targets, thinking_log, thinking_log_file,
                    page_state, page_result, calls, discarded >>
    /\ UNCHANGED << pagVars, cleanVars >>

\* lines 400-416: a record is appended when the reasoning is not empty, the
\* whole log is rewritten when it is not empty; the page is completed
LogThinking ==
    /\ pc = "log"
    /\ LET logged == IF SAVE_THINKING_LOG /\ thinking /= <<>>
                     THEN Append(thinking_log,
                                 TraceRecord(page_num, pages[page_num], thinking, content))
                     ELSE thinking_log
       IN /\ thinking_log' = logged
          /\ thinking_log_file' = IF SAVE_THINKING_LOG /\ logged /= <<>>
                                  THEN logged
                                  ELSE thinking_log_file
    /\ page_state' = [page_state EXCEPT ![page_num] = "COMPLETED"]
    /\ IF page_num < total_pages
       THEN pc' = "pause" /\ page_num' = page_num
       ELSE pc' = "next_page" /\ page_num' = AfterPage(page_num)
    /\ UNCHANGED << total_pages, attempts, thinking, content, stream, work_files,
                    open_targets, outfile, page_result, calls, discarded >>
    /\ UNCHANGED << pagVars, cleanVars >>

\* line 417: time.sleep(DELAY_BETWEEN_PAGES), then the next loop iteration
Pause ==
    /\ pc = "pause"
    /\ page_num' = AfterPage(page_num)
    /\ pc' = "next_page"
    /\ UNCHANGED << total_pages, attempts, thinking, content, stream, work_files,
                    open_targets, outfile, thinking_log, thinking_log_file,
                    page_state, page_result, calls, discarded >>
    /\ UNCHANGED << pagVars, cleanVars >>

\* lines 384 and 424-427: the loop is exhausted, the with block closes the
\* output file
FinishRun ==
    /\ pc = "next_page"
    /\ page_num > total_pages
    /\ outfile' = FileFlush(outfile)
    /\ pc' = "complete"
    /\ UNCHANGED << total_pages, page_num, attempts, thinking, content, stream,
                    work_files, open_targets, thinking_log, thinking_log_file,
                    page_state, page_result, calls, discarded >>
    /\ UNCHANGED << pagVars, cleanVars >>

Next ==
    \/ StartPage
    \/ BeginAttempt
    \/ ReceivePart
    \/ RetryAfterFailure
    \/ GiveUp
    \/ EndStream
    \/ WritePage
    \/ LogThinking
    \/ Pause
    \/ FinishRun

Spec == RunInit /\ [][Next]_vars

\* every generation call returns or fails, every delay ends: the single
\* thread of main always takes its next step
LiveSpec == Spec /\ WF_vars(Next)

\* ------------------------------------------------------------------------
\* main when the storage of the trace log can fail
\* ------------------------------------------------------------------------

\* what thinking_log.json can hold after a failed rewrite of the snapshot
\* logged: the old content when open() of line 411 raised, the records that
\* json.dump had written when the write raised after the file was truncated
FailedSnapshots(old, logged) ==
    {old} \cup {SubSeq(logged, 1, j) : j \in 0..Len(logged)}

\* lines 400-412 and 419-422: the record is appended to the in-memory log,
\* then open() or json.dump raises; the handler of main reports the page as
\* failed and the loop continues with the next page, without the delay
SnapshotFails ==
    /\ pc = "log"
    /\ LET logged == IF SAVE_THINKING_LOG /\ thinking /= <<>>
                     THEN Append(thinking_log,
                                 TraceRecord(page_num, pages[page_num], thinking, content))
                     ELSE thinking_log
       IN /\ SAVE_THINKING_LOG /\ logged /= <<>>
          /\ thinking_log' = logged
          /\ thinking_log_file' \in FailedSnapshots(thinking_log_file, logged)
    /\ page_state' = [page_state EXCEPT ![page_num] = "FAILED_SKIPPED"]
    /\ page_num' = AfterPage(page_num)
    /\ pc' = "next_page"
    /\ UNCHANGED << total_pages, attempts, thinking, content, stream, work_files,
                    open_targets, outfile, page_result, calls, discarded >>
    /\ UNCHANGED << pagVars, cleanVars >>

StorageNext ==
    \/ Next
    \/ SnapshotFails

\* the run of main when the generation capability and the storage of the
\* trace log can fail
StorageSpec == RunInit /\ [][StorageNext]_vars

\* ------------------------------------------------------------------------
\* The cleanup of translate_page, one action per statement
\* ------------------------------------------------------------------------

\* the pieces a raw final text is built from: three of the listed prefixes
\* as listed, the fourth in another letter case, a blank and a word
CleanTokens ==
    { PrefixHereIs, PrefixTranslation, PrefixHeres,
      << "t", "r", "a", "n", "s", "l", "a", "t", "e", "d", " ",
         "T", "E", "X", "T", ":" >>,
      <<" ">>, <<"f", "o", "o">> }

RECURSIVE CleanTokenSeqs(_)
CleanTokenSeqs(n) ==
    IF n = 0 THEN {<<>>}
    ELSE LET shorter == CleanTokenSeqs(n - 1)
         IN shorter \cup {Append(ts, t) : ts \in {u \in shorter : Len(u) = n - 1},
                                         t \in CleanTokens}

RawContents == {Flatten(ts) : ts \in CleanTokenSeqs(MaxCleanTokens)}

\* translate_page at line 287 with any final buffer
CleanInit ==
    /\ TARGET_WORDS_PER_PAGE = DEFAULT_TARGET_WORDS
    /\ MAX_WORDS_PER_PAGE = DEFAULT_MAX_WORDS
    /\ PRESERVE_CHAPTER_BREAKS = TRUE
    /\ text = <<>>
    /\ paragraphs = <<>>
    /\ para_idx = 0
    /\ pages = <<>>
    /\ current_page = <<>>
    /\ current_word_count = 0
    /\ split_pc = "idle"
    /\ RunNotStarted
    /\ raw_content \in RawContents
    /\ cleanup_content = raw_content
    /\ prefix_idx = 0
    /\ clean_pc = "strip"

\* line 288
StripContent ==
    /\ clean_pc = "strip"
    /\ cleanup_content' = Strip(cleanup_content)
    /\ prefix_idx' = 1
    /\ clean_pc' = "prefixes"
    /\ UNCHANGED << raw_content, pagVars, runVars >>

InPrefixLoop == clean_pc = "prefixes" /\ prefix_idx <= Len(prefixes_to_remove)

\* lines 301-303, the condition of line 302 holds
CutMatchingPrefix ==
    /\ InPrefixLoop
    /\ HasPrefix(cleanup_content, prefixes_to_remove[prefix_idx])
    /\ cleanup_content' = CutPrefix(cleanup_content, prefixes_to_remove[prefix_idx])
    /\ prefix_idx' = prefix_idx + 1
    /\ UNCHANGED << raw_content, clean_pc, pagVars, runVars >>

\* lines 301-302, the condition of line 302 does not hold
SkipPrefix ==
    /\ InPrefixLoop
    /\ ~HasPrefix(cleanup_content, prefixes_to_remove[prefix_idx])
    /\ prefix_idx' = prefix_idx + 1
    /\ UNCHANGED << raw_content, cleanup_content, clean_pc, pagVars, runVars >>

\* the loop of line 301 is exhausted; line 310 returns content
ReturnContent ==
    /\ clean_pc = "prefixes"
    /\ prefix_idx > Len(prefixes_to_remove)
    /\ clean_pc' = "done"
    /\ UNCHANGED << raw_content, cleanup_content, prefix_idx, pagVars, runVars >>

CleanNext ==
    \/ StripContent
    \/ CutMatchingPrefix
    \/ SkipPrefix
    \/ ReturnContent

CleanSpec == CleanInit /\ [][CleanNext]_vars

\* ------------------------------------------------------------------------
\* Properties of split_into_pages
\* ------------------------------------------------------------------------

RECURSIVE SplitOnSepFrom(_, _)
SplitOnSepFrom(s, i) ==
    LET seps == {j \in i..(Len(s) - 1) : s[j] = "\n" /\ s[j + 1] = "\n"}
    IN IF seps = {} THEN << SubSeq(s, i, Len(s)) >>
       ELSE LET j == CHOOSE m \in seps : \A k \in seps : m <= k
            IN << SubSeq(s, i, j - 1) >> \o SplitOnSepFrom(s, j + 2)

\* page.split('\n\n'): the paragraphs of a page
PageParagraphs(page) == SplitOnSepFrom(page, 1)

\* the paragraphs of all pages, in page order
AllPageParagraphs(pgs) == Flatten([k \in 1..Len(pgs) |-> PageParagraphs(pgs[k])])

\* the non-empty trimmed paragraphs of the source, in source order
SourceParagraphs(t) ==
    LET raw == ReSplit(t)
        trimmed == [k \in 1..Len(raw) |-> Strip(raw[k])]
    IN SelectSeq(trimmed, LAMBDA p : p /= <<>>)

\* C1: once split_into_pages has returned, the paragraphs of the pages, taken
\* in page order, are exactly the non-empty trimmed paragraphs of the source
\* in source order: none dropped, duplicated, reordered or split.
PaginationCompleteness ==
    split_pc = "done" => AllPageParagraphs(pages) = SourceParagraphs(text)

\* C1 witness: a finished split of three paragraphs into two pages, one of
\* them holding two paragraphs
PaginationCompletenessWitness ==
    /\ split_pc = "done"
    /\ Len(pages) >= 2
    /\ Len(SourceParagraphs(text)) >= 3
    /\ \E k \in 1..Len(pages) : Len(PageParagraphs(pages[k])) >= 2

\* C2: every page that holds two or more paragraphs has at most
\* MAX_WORDS_PER_PAGE words, with break preservation on or off; only a page
\* of a single paragraph may exceed the maximum.
PaginationBound ==
    \A k \in 1..Len(pages) :
        Len(PageParagraphs(pages[k])) >= 2
            => WordCount(pages[k]) <= MAX_WORDS_PER_PAGE

\* C2 witness: a returned page of two or more paragraphs that is exactly at
\* the maximum, next to a page that was closed because the maximum would
\* have been exceeded
PaginationBoundWitness ==
    /\ split_pc = "done"
    /\ Len(pages) >= 2
    /\ \E k \in 1..(Len(pages) - 1) :
          /\ Len(PageParagraphs(pages[k])) >= 2
          /\ WordCount(pages[k]) = MAX_WORDS_PER_PAGE
          /\ WordCount(pages[k]) < TARGET_WORDS_PER_PAGE

\* a structural break is never the second or a later paragraph of a page
BreaksStartPages(pgs) ==
    \A k \in 1..Len(pgs) :
        LET ps == PageParagraphs(pgs[k])
        IN \A j \in 2..Len(ps) : ~MatchesBreak(ps[j])

\* C3: with break preservation on, a paragraph matching the structural-break
\* pattern becomes the first paragraph of a new page whatever the running
\* word count, the non-empty page before it is flushed unchanged, and in the
\* returned list every such paragraph is the first paragraph of its page.
BreakPreservation ==
    [][ /\ (InLoop /\ PRESERVE_CHAPTER_BREAKS /\ MatchesBreak(CurrentPara))
            => /\ current_page' = <<CurrentPara>>
               /\ pages' = IF current_page = <<>> THEN pages
                            ELSE Append(pages, Join(current_page, PageSep))
        /\ (PRESERVE_CHAPTER_BREAKS /\ split_pc' = "done")
            => BreaksStartPages(pages') ]_vars

\* C3 witness: a heading opens a page although the page before it is below
\* the target word count
BreakPreservationWitness ==
    /\ split_pc = "done"
    /\ PRESERVE_CHAPTER_BREAKS
    /\ \E k \in 2..Len(pages) :
          /\ MatchesBreak(PageParagraphs(pages[k])[1])
          /\ WordCount(pages[k - 1]) > 0
          /\ WordCount(pages[k - 1]) < TARGET_WORDS_PER_PAGE
          /\ WordCount(pages[k - 1]) + WordCount(PageParagraphs(pages[k])[1])
                <= MAX_WORDS_PER_PAGE

\* ------------------------------------------------------------------------
\* Properties of translate_page and main
\* ------------------------------------------------------------------------

PageIds == 1..Len(pages)

Terminal(st) == st \in {"COMPLETED", "FAILED_SKIPPED"}

\* the final-channel and the reasoning-channel text of a sequence of parts
ContentOf(parts) == Flatten([k \in 1..Len(parts) |-> parts[k].content])
ThinkingOf(parts) == Flatten([k \in 1..Len(parts) |-> parts[k].thinking])

\* C4: when the stream of attempt N <= RETRY_ATTEMPTS ends normally after
\* N-1 failed attempts, translate_page returns, the returned final text and
\* reasoning are built from the parts of attempt N alone, chat() was called
\* exactly N times for the page, and the page goes on to COMPLETED.
RetrySuccess ==
    [][ /\ (pc = "stream" /\ pc' = "write")
            => /\ attempts + 1 <= RETRY_ATTEMPTS
               /\ calls[page_num] = attempts + 1
               /\ content' = CleanContent(ContentOf(stream))
               /\ thinking' = ThinkingOf(stream)
               /\ page_result'[page_num] = PageResult(content', thinking')
        /\ pc = "write"
            => /\ pc' = "log"
               /\ page_state' = page_state
               /\ UNCHANGED << content, thinking, calls >>
        /\ pc = "log"
            => /\ page_state'[page_num] = "COMPLETED"
               /\ calls'[page_num] = attempts + 1
               /\ page_result'[page_num] = PageResult(content, thinking) ]_vars

\* C4 witness: the second page succeeds on the last attempt of the budget,
\* with both channels filled, after failed attempts that had delivered
\* parts and after the first page was skipped
RetrySuccessWitness ==
    /\ pc = "write"
    /\ attempts = RETRY_ATTEMPTS - 1
    /\ discarded > 0
    /\ content /= <<>>
    /\ thinking /= <<>>
    /\ page_num = 2
    /\ page_state[1] = "FAILED_SKIPPED"

ArtifactsUnchanged == UNCHANGED << outfile, thinking_log, thinking_log_file >>

\* C5: when the last attempt of the budget fails, chat() has been called
\* exactly RETRY_ATTEMPTS times for the page, the page becomes
\* FAILED_SKIPPED, the loop goes on to the next page, and no step from the
\* start of the page to that failure has changed the output artifact or the
\* trace log.
RetryExhaustion ==
    [][ /\ (pc = "stream" /\ attempts' = RETRY_ATTEMPTS)
            => /\ calls[page_num] = RETRY_ATTEMPTS
               /\ calls' = calls
               /\ page_state'[page_num] = "FAILED_SKIPPED"
               /\ page_num' = page_num + 1
               /\ pc' = "next_page"
        /\ \A k \in PageIds :
              (page_state[k] /= "FAILED_SKIPPED" /\ page_state'[k] = "FAILED_SKIPPED")
                  => k = page_num /\ attempts' = RETRY_ATTEMPTS
        /\ (pc \in {"call", "stream"} \/ (pc = "next_page" /\ pc' = "call"))
            => ArtifactsUnchanged ]_vars

\* C5 witness: the first page has just been given up after RETRY_ATTEMPTS
\* calls, its failed attempts had delivered parts, and a next page waits
RetryExhaustionWitness ==
    /\ pc = "next_page"
    /\ page_num = 2
    /\ page_num <= total_pages
    /\ page_state[1] = "FAILED_SKIPPED"
    /\ page_state[2] = "PENDING"
    /\ calls[1] = RETRY_ATTEMPTS
    /\ discarded > 0

\* main is between two pages or after the last one
AtPageBoundary == pc \in {"next_page", "pause", "complete"}

RECURSIVE WithoutLineFeeds(_)
WithoutLineFeeds(s) ==
    IF s = <<>> THEN <<>>
    ELSE IF Head(s) = "\n" THEN WithoutLineFeeds(Tail(s))
    ELSE <<Head(s)>> \o WithoutLineFeeds(Tail(s))

RECURSIVE CompletedTexts(_)
\* the final texts of the COMPLETED pages among 1..k, in page order
CompletedTexts(k) ==
    IF k = 0 THEN <<>>
    ELSE IF page_state[k] = "COMPLETED"
         THEN Append(CompletedTexts(k - 1), page_result[k].final)
         ELSE CompletedTexts(k - 1)

RECURSIVE TracedRecords(_)
\* the records of the COMPLETED pages among 1..k with a non-empty reasoning
TracedRecords(k) ==
    IF k = 0 THEN <<>>
    ELSE IF page_state[k] = "COMPLETED" /\ page_result[k].trace /= <<>>
         THEN Append(TracedRecords(k - 1),
                     [ page |-> k,
                       original_preview |-> Prefix(pages[k], PREVIEW_CHARS),
                       thinking |-> page_result[k].trace,
                       translation_preview |->
                           Prefix(page_result[k].final, PREVIEW_CHARS) ])
         ELSE TracedRecords(k - 1)

\* C6: at every page boundary the text of the stored output artifact is the
\* final texts of exactly the COMPLETED pages so far, in page order, the
\* stored trace log holds exactly the records of the COMPLETED pages with a
\* non-empty reasoning, and nothing is held only in memory: the buffer of
\* the output file is empty and the in-memory log equals the stored one.
CrashResilience ==
    AtPageBoundary =>
        /\ WithoutLineFeeds(outfile.disk) = Flatten(CompletedTexts(Len(pages)))
        /\ thinking_log_file = TracedRecords(Len(pages))
        /\ outfile.buffer = <<>>
        /\ thinking_log = thinking_log_file

\* C6 witness: the first page is completed with a final text and a
\* reasoning, the second page has not started
CrashResilienceWitness ==
    /\ pc = "pause"
    /\ page_num = 1
    /\ page_state[1] = "COMPLETED"
    /\ page_state[2] = "PENDING"
    /\ page_result[1].final /= <<>>
    /\ page_result[1].trace /= <<>>

\* C8: a page changes state only PENDING -> IN_PROGRESS -> COMPLETED or
\* FAILED_SKIPPED, a page enters IN_PROGRESS only when every page before it
\* is in a terminal state, at most one page is IN_PROGRESS, chat() is called
\* only for the page that is IN_PROGRESS, and a terminal page stays as it is.
PageStateMachine ==
    [][ /\ \A k \in PageIds :
              page_state'[k] /= page_state[k]
                  => /\ << page_state[k], page_state'[k] >> \in
                          { << "PENDING", "IN_PROGRESS" >>,
                            << "IN_PROGRESS", "COMPLETED" >>,
                            << "IN_PROGRESS", "FAILED_SKIPPED" >> }
                     /\ page_state'[k] = "IN_PROGRESS"
                          => \A j \in 1..(k - 1) : Terminal(page_state[j])
        /\ Cardinality({k \in PageIds : page_state'[k] = "IN_PROGRESS"}) <= 1
        /\ \A k \in PageIds :
              /\ calls'[k] /= calls[k] => page_state[k] = "IN_PROGRESS"
              /\ page_state'[k] = "PENDING" => calls'[k] = 0
              /\ Terminal(page_state[k]) => calls'[k] = calls[k] ]_vars

\* C8 witness: the first page was skipped and the second page is being
\* generated
PageStateMachineWitness ==
    /\ Len(pages) >= 2
    /\ page_state[1] = "FAILED_SKIPPED"
    /\ page_state[2] = "IN_PROGRESS"
    /\ calls[2] >= 1
    /\ pc = "stream"

RECURSIVE SumCalls(_)
SumCalls(k) == IF k = 0 THEN 0 ELSE calls[k] + SumCalls(k - 1)

RunComplete == pc = "complete" /\ \A k \in PageIds : Terminal(page_state[k])

\* C9: when every call returns or fails and every stream is finite, the run
\* reaches COMPLETE with every page in a terminal state, whatever the
\* pattern of successes and failures, and never makes more than
\* (number of pages) x RETRY_ATTEMPTS calls of chat().
Termination ==
    /\ <>RunComplete
    /\ [](SumCalls(Len(pages)) <= Len(pages) * RETRY_ATTEMPTS)

\* C9 witness: a finished run with a skipped page and a page completed on
\* the last attempt, which used the whole call budget
TerminationWitness ==
    /\ RunComplete
    /\ \E k \in PageIds : page_state[k] = "FAILED_SKIPPED"
    /\ \E k \in PageIds : page_state[k] = "COMPLETED"
    /\ SumCalls(Len(pages)) = Len(pages) * RETRY_ATTEMPTS

\* s is a prefix of t
IsPrefix(s, t) == Len(s) <= Len(t) /\ SubSeq(t, 1, Len(s)) = s

\* C10: at every page boundary the output artifact is the final texts of
\* the COMPLETED pages so far joined by one double line break, without a
\* leading or trailing separator and without a separator for a skipped
\* page, and the artifact only grows by appending.
OutputArtifactFormat ==
    [][ /\ AtPageBoundary' =>
              outfile'.disk = Join(CompletedTexts(Len(pages))', PageSep)
        /\ IsPrefix(outfile.disk, outfile'.disk) ]_vars

\* ------------------------------------------------------------------------
\* Properties of the cleanup
\* ------------------------------------------------------------------------

\* the text with exactly one listed prefix removed and the rest trimmed
OnePrefixRemoved(t, result) ==
    \E k \in 1..Len(prefixes_to_remove) :
        /\ HasPrefix(t, prefixes_to_remove[k])
        /\ result = CutPrefix(t, prefixes_to_remove[k])

\* C7: the cleanup returns the trimmed text unchanged or the trimmed text
\* with exactly one leading listed prefix removed and the rest trimmed; it
\* never removes two prefixes in one pass.
AtMostOnePrefixRemoved ==
    clean_pc = "done" =>
        LET t == Strip(raw_content)
        IN cleanup_content = t \/ OnePrefixRemoved(t, cleanup_content)

\* ------------------------------------------------------------------------
\* Properties of the orchestrator loop: pacing and failed pages
\* ------------------------------------------------------------------------

\* C11: the loop goes from a page that is not the last one to the next page
\* only by ending the inter-page delay, whether the page was COMPLETED or
\* FAILED_SKIPPED, and the delay is taken only after a page that is not the
\* last one.
InterPagePacing ==
    [][ /\ (page_num' = page_num + 1 /\ page_num < total_pages) => pc = "pause"
        /\ pc' = "pause" => page_num' < total_pages ]_vars

\* the page indexes of the records of a trace log
LoggedPages(log) == {log[j].page : j \in 1..Len(log)}

\* C12: once the error handler of main has run for a page, whatever step
\* raised the error, neither the in-memory nor the stored trace log holds a
\* record of the page, and at a page boundary the output artifact holds the
\* final texts of the COMPLETED pages only.
FailedPageContributesNothing ==
    /\ \A k \in PageIds :
          page_state[k] = "FAILED_SKIPPED"
              => /\ k \notin LoggedPages(thinking_log)
                 /\ k \notin LoggedPages(thinking_log_file)
    /\ AtPageBoundary
          => WithoutLineFeeds(outfile.disk \o outfile.buffer)
                = Flatten(CompletedTexts(Len(pages)))

\* ------------------------------------------------------------------------
\* Further properties of split_into_pages
\* ------------------------------------------------------------------------

\* the pages that the paragraphs of 300, 250 and 100 words are expected on
ThreeParagraphsPages ==
    << Join(<< Words(300), Words(250) >>, PageSep), Words(100) >>

\* two consecutive returned pages, the second not opened by a structural
\* break: the first reached the target or the paragraph that opens the
\* second would have exceeded the maximum
ConsecutivePagesJustified(pgs) ==
    \A k \in 1..(Len(pgs) - 1) :
        LET first == PageParagraphs(pgs[k + 1])[1]
        IN ~IsChapterBreak(first)
             => \/ WordCount(pgs[k]) >= TARGET_WORDS_PER_PAGE
                \/ WordCount(pgs[k]) + WordCount(first) > MAX_WORDS_PER_PAGE

\* C13: a paragraph that is not treated as a structural break closes the
\* current page and opens a new one exactly when the current page is not
\* empty and (running count + its words > maximum, or running count >=
\* target), and is appended to the current page otherwise; so two
\* consecutive pages are justified by the target or the maximum, and
\* paragraphs of 300, 250 and 100 words with target 500, maximum 800 and
\* breaks disabled give the two pages {300, 250} and {100}.
PageBoundaryRule ==
    [][ /\ (InLoop /\ CurrentPara /= <<>> /\ ~IsChapterBreak(CurrentPara))
            => LET words == WordCount(CurrentPara)
                   newPage ==
                       /\ current_page /= <<>>
                       /\ \/ current_word_count + words > MAX_WORDS_PER_PAGE
                          \/ current_word_count >= TARGET_WORDS_PER_PAGE
               IN IF newPage
                  THEN /\ pages' = Append(pages, Join(current_page, PageSep))
                       /\ current_page' = <<CurrentPara>>
                       /\ current_word_count' = words
                  ELSE /\ pages' = pages
                       /\ current_page' = Append(current_page, CurrentPara)
                       /\ current_word_count' = current_word_count + words
        /\ split_pc' = "done"
            => /\ ConsecutivePagesJustified(pages')
               /\ ( /\ text = ThreeParagraphs
                    /\ TARGET_WORDS_PER_PAGE = 500
                    /\ MAX_WORDS_PER_PAGE = 800
                    /\ ~PRESERVE_CHAPTER_BREAKS )
                     => pages' = ThreeParagraphsPages ]_vars

\* C13 witness: the paragraphs of 300, 250 and 100 words are split under
\* target 500 and maximum 800 with breaks disabled, the first page was closed
\* at 550 words, above the target and below the maximum
PageBoundaryRuleWitness ==
    /\ split_pc = "done"
    /\ text = ThreeParagraphs
    /\ TARGET_WORDS_PER_PAGE = 500
    /\ MAX_WORDS_PER_PAGE = 800
    /\ ~PRESERVE_CHAPTER_BREAKS
    /\ Len(pages) = 2
    /\ WordCount(pages[1]) = 550
    /\ WordCount(pages[2]) = 100

\* the text has a blank line: two line feeds with nothing but whitespace
\* between them
HasBlankLine(s) ==
    \E i \in {n \in 1..Len(s) : s[n] = "\n"} :
        \E j \in (i + 1)..Len(s) :
            /\ s[j] = "\n"
            /\ \A k \in (i + 1)..(j - 1) : IsSpace(s[k])

\* no returned page is empty, and the page list is empty only when the text
\* has no non-empty paragraph
NoEmptyPage ==
    /\ \A k \in 1..Len(pages) : pages[k] /= <<>>
    /\ pages = <<>> => SourceParagraphs(text) = <<>>

\* C14 as claimed: every text without a blank line gives exactly one page
\* of exactly one paragraph; no returned page is empty, the page list being
\* empty only when the text has no non-empty paragraph.
SinglePageWithoutBlankLine ==
    split_pc = "done" =>
        /\ ~HasBlankLine(text)
              => Len(pages) = 1 /\ Len(PageParagraphs(pages[1])) = 1
        /\ NoEmptyPage

\* C14 as amended: every text without a blank line that holds at least one
\* character that is not whitespace gives exactly one page of exactly one
\* paragraph, the trimmed text; no returned page is empty, the page list
\* being empty only when the text has no non-empty paragraph.
SinglePageOfNonBlankText ==
    split_pc = "done" =>
        /\ (~HasBlankLine(text) /\ Strip(text) /= <<>>)
              => /\ Len(pages) = 1
                 /\ Len(PageParagraphs(pages[1])) = 1
                 /\ pages[1] = Strip(text)
        /\ NoEmptyPage

\* C14 witness: a text of several lines and no blank line is returned as
\* one page although it has more words than the maximum
SinglePageOfNonBlankTextWitness ==
    /\ split_pc = "done"
    /\ ~HasBlankLine(text)
    /\ \E i \in 1..Len(text) : text[i] = "\n"
    /\ WordCount(text) > MAX_WORDS_PER_PAGE
    /\ MAX_WORDS_PER_PAGE > TARGET_WORDS_PER_PAGE
    /\ Len(pages) = 1

\* the heading tokens of the specification, in lower case
HeadingWords == { <<"c", "h", "a", "p", "t", "e", "r">>, <<"p", "a", "r", "t">> }

\* the first word of s: its characters up to the first whitespace
FirstWord(s) ==
    LET spaces == {i \in 1..Len(s) : IsSpace(s[i])}
    IN IF spaces = {} THEN s
       ELSE SubSeq(s, 1, (CHOOSE i \in spaces : \A k \in spaces : i <= k) - 1)

\* an integer or a Roman numeral
IsNumeral(w) ==
    /\ w /= <<>>
    /\ \/ \A i \in 1..Len(w) : IsDigit(w[i])
       \/ \A i \in 1..Len(w) : w[i] \in {"I", "V", "X", "L", "C", "D", "M"}

\* a heading token in any letter case, whitespace, then an integer or a
\* Roman numeral
IsHeading(para) ==
    \E h \in HeadingWords :
        /\ LowerStr(Prefix(para, Len(h))) = h
        /\ Len(para) > Len(h)
        /\ IsSpace(para[Len(h) + 1])
        /\ IsNumeral(FirstWord(LStrip(SubSeq(para, Len(h) + 1, Len(para)))))

\* C15: with break preservation enabled, a paragraph is forced to start a
\* new page if and only if it begins with "Chapter" or "Part" in any letter
\* case followed by whitespace and an integer or Roman numeral: such a
\* paragraph always opens a page, and any other paragraph, a heading token
\* followed by an ordinary word included, is appended to a non-empty page
\* that is below the target and has room for it.
BreakRecognition ==
    [][ (InLoop /\ CurrentPara /= <<>> /\ PRESERVE_CHAPTER_BREAKS)
            => IF IsHeading(CurrentPara)
               THEN current_page' = <<CurrentPara>>
               ELSE ( /\ current_page /= <<>>
                      /\ current_word_count < TARGET_WORDS_PER_PAGE
                      /\ current_word_count + WordCount(CurrentPara)
                            <= MAX_WORDS_PER_PAGE )
                       => current_page' = Append(current_page, CurrentPara) ]_vars

\* ------------------------------------------------------------------------
\* Properties of the trace log and of the working files
\* ------------------------------------------------------------------------

\* the pages that are COMPLETED with a non-empty reasoning trace
TracedPages ==
    {k \in PageIds : page_state[k] = "COMPLETED" /\ page_result[k].trace /= <<>>}

\* C16: after any sequence of page outcomes the trace log holds a record of
\* page i exactly when page i is COMPLETED with a non-empty reasoning trace,
\* the records are in strictly increasing page order (so no page has two),
\* a record once appended is never changed or removed, and after every
\* COMPLETED page the stored snapshot equals the in-memory list.
TraceLogContent ==
    [][ /\ LoggedPages(thinking_log') = TracedPages'
        /\ \A j \in 1..(Len(thinking_log') - 1) :
              thinking_log'[j].page < thinking_log'[j + 1].page
        /\ IsPrefix(thinking_log, thinking_log')
        /\ \A k \in PageIds :
              (page_state[k] /= "COMPLETED" /\ page_state'[k] = "COMPLETED")
                  => thinking_log_file' = thinking_log' ]_vars

\* C17: while an attempt is streaming and when its stream has ended, each
\* working file of the page holds exactly what the buffer of its channel
\* holds, the fragments of that channel in arrival order; a fragment of one
\* channel changes neither the buffer nor the file of the other channel.
StreamRecording ==
    [][ /\ pc' = "stream"
            => /\ work_files'[page_num'].exists
               /\ work_files'[page_num'].thinking = thinking'
               /\ work_files'[page_num'].content = content'
               /\ thinking' = ThinkingOf(stream')
               /\ content' = ContentOf(stream')
        /\ (pc = "stream" /\ pc' = "write")
            => /\ work_files'[page_num].thinking = ThinkingOf(stream)
               /\ work_files'[page_num].content = ContentOf(stream)
        /\ (pc = "stream" /\ pc' = "stream" /\ Len(stream') = Len(stream) + 1)
            => LET part == stream'[Len(stream')]
               IN /\ part.content = <<>>
                     => /\ content' = content
                        /\ work_files'[page_num].content = work_files[page_num].content
                  /\ part.thinking = <<>>
                     => /\ thinking' = thinking
                        /\ work_files'[page_num].thinking = work_files[page_num].thinking
       ]_vars

\* C17 witness: a retry has received a reasoning and a final fragment
StreamRecordingWitness ==
    /\ pc = "stream"
    /\ attempts >= 1
    /\ Len(stream) = 2
    /\ work_files[page_num].thinking /= <<>>
    /\ work_files[page_num].content /= <<>>

\* C18: when an attempt has ended, by the end of its stream or by a failure
\* of the capability, its two append targets are closed before the next
\* attempt opens new ones and before the page is terminal: no target is open
\* when an attempt begins, and none at a page boundary.
TargetsReleased ==
    [][ /\ (pc = "call" /\ pc' = "stream") => open_targets = {}
        /\ AtPageBoundary' => open_targets' = {} ]_vars

\* C19: every attempt on a page creates or truncates both working files of
\* the page, so during and after an attempt that follows failed attempts
\* each working file holds exactly the fragments of its channel delivered by
\* the latest attempt; the working files of the other pages are not changed
\* while the page is processed.
LatestAttemptOnly ==
    [][ /\ (pc = "call" /\ pc' = "stream")
            => work_files'[page_num] = WorkFiles(<<>>, <<>>)
        /\ pc' \in {"stream", "write", "log"}
            => work_files'[page_num'] =
                  WorkFiles(ThinkingOf(stream'), ContentOf(stream'))
        /\ \A k \in PageIds :
              work_files'[k] /= work_files[k]
                  => k = page_num /\ page_state[k] = "IN_PROGRESS" ]_vars

\* C19 witness: on the second page, after an attempt that delivered two
\* fragments and failed, a further attempt has delivered one fragment, and
\* the working files of the first page hold what its stream delivered
LatestAttemptOnlyWitness ==
    /\ pc = "stream"
    /\ page_num = 2
    /\ attempts >= 1
    /\ discarded = 2
    /\ Len(stream) = 1
    /\ work_files[1].exists
    /\ work_files[1].thinking /= <<>>

====
